---- MODULE Spec2Model ----
(***************************************************************************)
(* Generic caching repository (GenericRepository), the cache facade, and   *)
(* the user registration workflow (UserService.save over                   *)
(* AuthenticationService.registerUser and PasswordService).                *)
(*                                                                         *)
(* One action per public operation.  Every awaited call to a collaborator  *)
(* (backing store, cache, identity provider, encryption) is recorded in    *)
(* the call log of the invocation and may throw: the n-th awaited call of  *)
(* an invocation throws iff n is in the fault plan F of that invocation.   *)
(***************************************************************************)
EXTENDS Integers, Sequences, FiniteSets, TLC

VARIABLES
    db,     \* backing store: partial function id -> row
    cache,  \* remote cache: partial function key -> [value, ttl]
    last,   \* the invocation that has just returned, or Idle
    tasks,  \* the invocations in flight at once, one per concurrent caller
    facade  \* the cache facade: its start-up fetch, its methods, its clients

vars == <<db, cache, last, tasks, facade>>

(***************************************************************************)
(* Bounds and value universes                                              *)
(***************************************************************************)
MaxId == 2

Ids == 1..MaxId
NoId == 0                      \* entity.id === undefined
Usernames == {"a", "b"}
Plain == {"p"}                 \* plaintext passwords
NewPlain == {"q"}              \* plaintext passwords chosen in a password reset
Codes == {"c"}                 \* confirmation codes
Emails == {"e"}

\* encryptPassword: the base64 ciphertext of the plaintext under the KMS key
Encrypt(p) == "kms(" \o p \o ")"

Stored == {Encrypt(p) : p \in Plain}
ResetStored == {Encrypt(p) : p \in NewPlain}
Passwords == Plain \cup Stored \cup ResetStored

\* User entity; id = NoId stands for an entity object without an id
Entities == [id : Ids \cup {NoId}, username : Usernames,
             password : Passwords, email : Emails]

Rows == [username : Usernames, password : Passwords, email : Emails]

RowOf(e) == [username |-> e.username, password |-> e.password, email |-> e.email]

EntityOf(id, r) ==
    [id |-> id, username |-> r.username, password |-> r.password, email |-> r.email]

\* cacheModel parameter; NoCM stands for an omitted cacheModel
NoCM == [key |-> "", expiration |-> 0]
UserKey(u) == "user:" \o u
CacheModels == {[key |-> UserKey("a"), expiration |-> 300]}
OptCacheModels == CacheModels \cup {NoCM}

(***************************************************************************)
(* Results returned to the caller                                          *)
(***************************************************************************)
Null == [kind |-> "null"]
Ent(e) == [kind |-> "entity", val |-> e]
List(l) == [kind |-> "list", val |-> l]
Page(d, c) == [kind |-> "page", data |-> d, count |-> c]
Bool(b) == [kind |-> "bool", val |-> b]
Void == [kind |-> "void"]
Token(t) == [kind |-> "token", token |-> t]
Message(m) == [kind |-> "message", message |-> m]
Http(code, m) == [kind |-> "http", statusCode |-> code, message |-> m]

(***************************************************************************)
(* JSON.stringify / JSON.parse                                             *)
(***************************************************************************)
Digits(n) ==
    CASE n = 0 -> "0" [] n = 1 -> "1" [] n = 2 -> "2" [] n = 3 -> "3"
      [] n = 4 -> "4" [] OTHER -> "9"

Quote(s) == "'" \o s \o "'"

\* a property whose value is undefined is left out of the text
StringifyEntity(e) ==
    "{" \o (IF e.id = NoId THEN "" ELSE "id:" \o Digits(e.id) \o ",")
        \o "username:" \o Quote(e.username)
        \o ",email:" \o Quote(e.email)
        \o ",password:" \o Quote(e.password) \o "}"

RECURSIVE StringifyItems(_)
StringifyItems(l) ==
    IF l = <<>> THEN ""
    ELSE StringifyEntity(Head(l))
         \o (IF Len(l) > 1 THEN "," ELSE "") \o StringifyItems(Tail(l))

Stringify(v) ==
    CASE v.kind = "entity" -> StringifyEntity(v.val)
      [] v.kind = "list" -> "[" \o StringifyItems(v.val) \o "]"
      [] v.kind = "page" ->
            "{data:[" \o StringifyItems(v.data) \o "],count:" \o Digits(v.count) \o "}"
      [] OTHER -> "null"

\* rows of the store in id order, as entities
RECURSIVE RowsFrom(_, _)
RowsFrom(d, i) ==
    IF i > MaxId THEN <<>>
    ELSE (IF i \in DOMAIN d THEN <<EntityOf(i, d[i])>> ELSE <<>>) \o RowsFrom(d, i + 1)

AllRows(d) == RowsFrom(d, 1)

DbStates == UNION {[S -> Rows] : S \in SUBSET Ids}

Parseable ==
    {Ent(e) : e \in Entities} \cup {List(AllRows(d)) : d \in DbStates}

\* JSON.parse of a text produced by JSON.stringify
ParseTable ==
    [s \in {Stringify(v) : v \in Parseable} |->
        CHOOSE v \in Parseable : Stringify(v) = s]

Parse(s) == ParseTable[s]

(***************************************************************************)
(* Awaited calls.  x = [db, cache, calls] is the world as the invocation   *)
(* sees it; every call appends to x.calls and yields [x, ok, ret].         *)
(***************************************************************************)
Start(d, c) == [db |-> d, cache |-> c, calls |-> <<>>, installed |-> facade.installed]

Throws(x, F) == (Len(x.calls) + 1) \in F

Logged(x, fn, arg, out) ==
    [x EXCEPT !.calls = Append(@, [fn |-> fn, arg |-> arg, out |-> out])]

Restrict(f, S) == [k \in S |-> f[k]]

\* cache.get: the stored text, or "" for null; calling the method before the
\* facade has installed it is a TypeError
CacheGet(x, F, key) ==
    IF ~x.installed
    THEN [x |-> Logged(x, "cache.get", key, "uninstalled"), ok |-> FALSE, ret |-> ""]
    ELSE IF Throws(x, F)
    THEN [x |-> Logged(x, "cache.get", key, "throw"), ok |-> FALSE, ret |-> ""]
    ELSE IF key \in DOMAIN x.cache
    THEN [x |-> Logged(x, "cache.get", key, "hit"), ok |-> TRUE,
          ret |-> x.cache[key].value]
    ELSE [x |-> Logged(x, "cache.get", key, "miss"), ok |-> TRUE, ret |-> ""]

\* cache.set: client.setEx(key, ttl, value)
CacheSet(x, F, key, value, ttl) ==
    IF ~x.installed
    THEN [x |-> Logged(x, "cache.set", key, "uninstalled"), ok |-> FALSE]
    ELSE IF Throws(x, F)
    THEN [x |-> Logged(x, "cache.set", key, "throw"), ok |-> FALSE]
    ELSE [x |-> [Logged(x, "cache.set", key, "ok") EXCEPT
                   !.cache = [k \in DOMAIN x.cache \cup {key} |->
                                IF k = key THEN [value |-> value, ttl |-> ttl]
                                ELSE x.cache[k]]],
          ok |-> TRUE]

\* cache.delete: client.del(key)
CacheDelete(x, F, key) ==
    IF ~x.installed
    THEN [x |-> Logged(x, "cache.delete", key, "uninstalled"), ok |-> FALSE]
    ELSE IF Throws(x, F)
    THEN [x |-> Logged(x, "cache.delete", key, "throw"), ok |-> FALSE]
    ELSE [x |-> [Logged(x, "cache.delete", key, "ok") EXCEPT
                   !.cache = Restrict(x.cache, DOMAIN x.cache \ {key})],
          ok |-> TRUE]

\* repo.save: insert under a generated id, or upsert under the entity's id
RepoSave(x, F, entity, newId) ==
    IF Throws(x, F)
    THEN [x |-> Logged(x, "repo.save", entity, "throw"), ok |-> FALSE, ret |-> entity]
    ELSE LET id == IF entity.id = NoId THEN newId ELSE entity.id
             saved == [entity EXCEPT !.id = id]
         IN [x |-> [Logged(x, "repo.save", entity, "ok") EXCEPT
                      !.db = [i \in DOMAIN x.db \cup {id} |->
                                IF i = id THEN RowOf(entity) ELSE x.db[i]]],
             ok |-> TRUE, ret |-> saved]

\* repo.findOneBy({ id })
RepoFindOneBy(x, F, id) ==
    IF Throws(x, F)
    THEN [x |-> Logged(x, "repo.findOneBy", id, "throw"), ok |-> FALSE, found |-> FALSE]
    ELSE IF id \in DOMAIN x.db
    THEN [x |-> Logged(x, "repo.findOneBy", id, "found"), ok |-> TRUE, found |-> TRUE,
          ret |-> EntityOf(id, x.db[id])]
    ELSE [x |-> Logged(x, "repo.findOneBy", id, "none"), ok |-> TRUE, found |-> FALSE]

\* repo.update(id, partial): changes the named columns of the row, if any
RepoUpdate(x, F, id, data) ==
    IF Throws(x, F)
    THEN [x |-> Logged(x, "repo.update", id, "throw"), ok |-> FALSE]
    ELSE [x |-> [Logged(x, "repo.update", id, "ok") EXCEPT
                   !.db = [i \in DOMAIN x.db |->
                             IF i = id
                             THEN [f \in DOMAIN x.db[i] |->
                                     IF f \in DOMAIN data THEN data[f] ELSE x.db[i][f]]
                             ELSE x.db[i]]],
          ok |-> TRUE]

\* repo.delete(id): reports the affected-row count, or none (reports = FALSE)
RepoDelete(x, F, id, reports) ==
    IF Throws(x, F)
    THEN [x |-> Logged(x, "repo.delete", id, "throw"), ok |-> FALSE, affected |-> -1]
    ELSE LET n == IF id \in DOMAIN x.db THEN 1 ELSE 0
             out == IF ~reports THEN "affected:none"
                    ELSE IF n = 1 THEN "affected:1" ELSE "affected:0"
         IN [x |-> [Logged(x, "repo.delete", id, out) EXCEPT
                      !.db = Restrict(x.db, DOMAIN x.db \ {id})],
             ok |-> TRUE, affected |-> IF reports THEN n ELSE -1]

\* repo.find()
RepoFind(x, F) ==
    IF Throws(x, F)
    THEN [x |-> Logged(x, "repo.find", 0, "throw"), ok |-> FALSE, ret |-> <<>>]
    ELSE [x |-> Logged(x, "repo.find", 0, "ok"), ok |-> TRUE, ret |-> AllRows(x.db)]

\* repo.findAndCount({ skip, take }): a window of the rows and the total count
RepoFindAndCount(x, F, skip, take) ==
    LET arg == [skip |-> skip, take |-> take] IN
    IF Throws(x, F)
    THEN [x |-> Logged(x, "repo.findAndCount", arg, "throw"), ok |-> FALSE,
          data |-> <<>>, count |-> 0]
    ELSE LET all == AllRows(x.db)
             hi == IF skip + take < Len(all) THEN skip + take ELSE Len(all)
         IN [x |-> Logged(x, "repo.findAndCount", arg, "ok"), ok |-> TRUE,
             data |-> SubSeq(all, skip + 1, hi), count |-> Len(all)]

\* what an invocation hands back: the world, the result, the error it raised
Done(x, res) == [x |-> x, res |-> res, raised |-> ""]
Raise(x, msg) == [x |-> x, res |-> Void, raised |-> msg]

\* mutant of Lookup: the cacheModel test is dropped
Lookup_Unguarded(x, F, cm) == CacheGet(x, F, cm.key)

\* the cache.get that opens a cached operation; skipped without a cacheModel
Lookup(x, F, cm) ==
    IF cm = NoCM THEN [x |-> x, ok |-> TRUE, ret |-> ""] ELSE CacheGet(x, F, cm.key)

(***************************************************************************)
(* GenericRepository                                                       *)
(***************************************************************************)
\* mutant of createEntity: a failing cache call is raised instead of swallowed
createEntity_RaisesCacheError(x0, F, entity, cm, newId) ==
    LET s == RepoSave(x0, F, entity, newId) IN
    IF ~s.ok THEN Done(s.x, Null)
    ELSE IF cm = NoCM THEN Done(s.x, Ent(s.ret))
    ELSE LET g == CacheGet(s.x, F, cm.key) IN
         IF ~g.ok THEN Raise(g.x, "cache.get failed")
         ELSE IF g.ret # "" THEN Done(g.x, Ent(s.ret))
         ELSE LET w == CacheSet(g.x, F, cm.key, Stringify(Ent(entity)), cm.expiration)
              IN IF w.ok THEN Done(w.x, Ent(s.ret)) ELSE Raise(w.x, "cache.set failed")

\* mutant of createEntity: the saved entity is cached instead of the input
createEntity_CachesSaved(x0, F, entity, cm, newId) ==
    LET s == RepoSave(x0, F, entity, newId) IN
    IF ~s.ok THEN Done(s.x, Null)
    ELSE IF cm = NoCM THEN Done(s.x, Ent(s.ret))
    ELSE LET g == CacheGet(s.x, F, cm.key) IN
         IF ~g.ok THEN Done(g.x, Null)
         ELSE IF g.ret # "" THEN Done(g.x, Ent(s.ret))
         ELSE LET w == CacheSet(g.x, F, cm.key, Stringify(Ent(s.ret)), cm.expiration)
              IN IF w.ok THEN Done(w.x, Ent(s.ret)) ELSE Done(w.x, Null)

\* mutant of createEntity: a value already under the key is overwritten
createEntity_Overwrites(x0, F, entity, cm, newId) ==
    LET s == RepoSave(x0, F, entity, newId) IN
    IF ~s.ok THEN Done(s.x, Null)
    ELSE IF cm = NoCM THEN Done(s.x, Ent(s.ret))
    ELSE LET g == CacheGet(s.x, F, cm.key) IN
         IF ~g.ok THEN Done(g.x, Null)
         ELSE LET w == CacheSet(g.x, F, cm.key, Stringify(Ent(entity)), cm.expiration)
              IN IF w.ok THEN Done(w.x, Ent(s.ret)) ELSE Done(w.x, Null)

createEntity(x0, F, entity, cm, newId) ==
    LET s == RepoSave(x0, F, entity, newId) IN
    IF ~s.ok THEN Done(s.x, Null)
    ELSE IF cm = NoCM THEN Done(s.x, Ent(s.ret))
    ELSE LET g == CacheGet(s.x, F, cm.key) IN
         IF ~g.ok THEN Done(g.x, Null)
         ELSE IF g.ret # "" THEN Done(g.x, Ent(s.ret))
         ELSE LET w == CacheSet(g.x, F, cm.key, Stringify(Ent(entity)), cm.expiration)
              IN IF w.ok THEN Done(w.x, Ent(s.ret)) ELSE Done(w.x, Null)

\* mutant of findEntityById: the entity read from the store is not cached
findEntityById_NoPopulate(x0, F, id, cm) ==
    LET g == Lookup(x0, F, cm) IN
    IF ~g.ok THEN Done(g.x, Null)
    ELSE IF g.ret # "" THEN Done(g.x, Parse(g.ret))
    ELSE LET f == RepoFindOneBy(g.x, F, id) IN
         IF ~f.ok \/ ~f.found THEN Done(f.x, Null) ELSE Done(f.x, Ent(f.ret))

\* mutant of findEntityById: a cache hit does not end the lookup
findEntityById_ReadsThrough(x0, F, id, cm) ==
    LET g == Lookup(x0, F, cm) IN
    IF ~g.ok THEN Done(g.x, Null)
    ELSE LET f == RepoFindOneBy(g.x, F, id) IN
         IF ~f.ok \/ ~f.found THEN Done(f.x, Null)
         ELSE IF cm = NoCM THEN Done(f.x, Ent(f.ret))
         ELSE LET w == CacheSet(f.x, F, cm.key, Stringify(Ent(f.ret)), cm.expiration)
              IN IF w.ok THEN Done(w.x, Ent(f.ret)) ELSE Done(w.x, Null)

findEntityById(x0, F, id, cm) ==
    LET g == Lookup(x0, F, cm) IN
    IF ~g.ok THEN Done(g.x, Null)
    ELSE IF g.ret # "" THEN Done(g.x, Parse(g.ret))
    ELSE LET f == RepoFindOneBy(g.x, F, id) IN
         IF ~f.ok \/ ~f.found THEN Done(f.x, Null)
         ELSE IF cm = NoCM THEN Done(f.x, Ent(f.ret))
         ELSE LET w == CacheSet(f.x, F, cm.key, Stringify(Ent(f.ret)), cm.expiration)
              IN IF w.ok THEN Done(w.x, Ent(f.ret)) ELSE Done(w.x, Null)

\* mutant of deleteEntity: the cache key is not evicted
deleteEntity_NoEviction(x0, F, id, cm, reports) ==
    LET d == RepoDelete(x0, F, id, reports) IN
    IF ~d.ok \/ d.affected = 0 THEN Done(d.x, Bool(FALSE)) ELSE Done(d.x, Bool(TRUE))

\* mutant of deleteEntity: the affected-row count is not looked at
deleteEntity_IgnoresAffected(x0, F, id, cm, reports) ==
    LET d == RepoDelete(x0, F, id, reports) IN
    IF ~d.ok THEN Done(d.x, Bool(FALSE))
    ELSE IF cm = NoCM THEN Done(d.x, Bool(TRUE))
    ELSE LET c == CacheDelete(d.x, F, cm.key)
         IN IF c.ok THEN Done(c.x, Bool(TRUE)) ELSE Done(c.x, Bool(FALSE))

deleteEntity(x0, F, id, cm, reports) ==
    LET d == RepoDelete(x0, F, id, reports) IN
    IF ~d.ok \/ d.affected = 0 THEN Done(d.x, Bool(FALSE))
    ELSE IF cm = NoCM THEN Done(d.x, Bool(TRUE))
    ELSE LET c == CacheDelete(d.x, F, cm.key)
         IN IF c.ok THEN Done(c.x, Bool(TRUE)) ELSE Done(c.x, Bool(FALSE))

\* mutant of updateEntityTry: the re-read is handed the cacheModel
updateEntityTry_ReadsCache(x0, F, id, data, cm) ==
    LET u == RepoUpdate(x0, F, id, data) IN
    IF ~u.ok THEN [x |-> u.x, threw |-> TRUE, res |-> Null]
    ELSE LET r == findEntityById(u.x, F, id, cm) IN
         IF r.res.kind = "null" THEN [x |-> r.x, threw |-> TRUE, res |-> Null]
         ELSE IF cm = NoCM THEN [x |-> r.x, threw |-> FALSE, res |-> r.res]
         ELSE LET w == CacheSet(r.x, F, cm.key, Stringify(r.res), cm.expiration)
              IN IF w.ok THEN [x |-> w.x, threw |-> FALSE, res |-> r.res]
                 ELSE [x |-> w.x, threw |-> TRUE, res |-> Null]

\* the try block of updateEntity: [x, threw, res]
updateEntityTry(x0, F, id, data, cm) ==
    LET u == RepoUpdate(x0, F, id, data) IN
    IF ~u.ok THEN [x |-> u.x, threw |-> TRUE, res |-> Null]
    ELSE LET r == findEntityById(u.x, F, id, NoCM) IN
         IF r.res.kind = "null" THEN [x |-> r.x, threw |-> TRUE, res |-> Null]
         ELSE IF cm = NoCM THEN [x |-> r.x, threw |-> FALSE, res |-> r.res]
         ELSE LET w == CacheSet(r.x, F, cm.key, Stringify(r.res), cm.expiration)
              IN IF w.ok THEN [x |-> w.x, threw |-> FALSE, res |-> r.res]
                 ELSE [x |-> w.x, threw |-> TRUE, res |-> Null]

\* mutant of updateEntityRollback: the found entity is not deleted
updateEntityRollback_NoDelete(x1, F, id, reports) ==
    Done(findEntityById(x1, F, id, NoCM).x, Null)

\* mutant of updateEntityRollback: the delete does not depend on the lookup
updateEntityRollback_DeletesBlindly(x1, F, id, reports) ==
    Done(deleteEntity(findEntityById(x1, F, id, NoCM).x, F, id, NoCM, reports).x, Null)

\* the catch block of updateEntity: look the entity up and delete it
updateEntityRollback(x1, F, id, reports) ==
    LET f == findEntityById(x1, F, id, NoCM) IN
    IF f.res.kind = "null" THEN Done(f.x, Null)
    ELSE Done(deleteEntity(f.x, F, f.res.val.id, NoCM, reports).x, Null)

updateEntity(x0, F, id, data, cm, reports) ==
    LET t == updateEntityTry(x0, F, id, data, cm) IN
    IF t.threw THEN updateEntityRollback(t.x, F, id, reports) ELSE Done(t.x, t.res)

getAllEntities(x0, F, cm) ==
    LET g == Lookup(x0, F, cm) IN
    IF ~g.ok THEN Raise(g.x, "cache.get failed")
    ELSE IF g.ret # "" THEN Done(g.x, Parse(g.ret))
    ELSE LET f == RepoFind(g.x, F) IN
         IF ~f.ok THEN Raise(f.x, "repo.find failed")
         ELSE IF cm = NoCM THEN Done(f.x, List(f.ret))
         ELSE LET w == CacheSet(f.x, F, cm.key, Stringify(List(f.ret)), cm.expiration)
              IN IF w.ok THEN Done(w.x, List(f.ret)) ELSE Raise(w.x, "cache.set failed")

\* mutant of getEntitiesWithPagination: a miss populates the cache
getEntitiesWithPagination_Populates(x0, F, skip, take, cm) ==
    LET g == Lookup(x0, F, cm) IN
    IF ~g.ok THEN Raise(g.x, "cache.get failed")
    ELSE IF g.ret # "" THEN Done(g.x, Parse(g.ret))
    ELSE LET f == RepoFindAndCount(g.x, F, skip, take) IN
         IF ~f.ok THEN Raise(f.x, "repo.findAndCount failed")
         ELSE IF cm = NoCM THEN Done(f.x, Page(f.data, f.count))
         ELSE LET w == CacheSet(f.x, F, cm.key, Stringify(Page(f.data, f.count)),
                                cm.expiration)
              IN IF w.ok THEN Done(w.x, Page(f.data, f.count))
                 ELSE Raise(w.x, "cache.set failed")

getEntitiesWithPagination(x0, F, skip, take, cm) ==
    LET g == Lookup(x0, F, cm) IN
    IF ~g.ok THEN Raise(g.x, "cache.get failed")
    ELSE IF g.ret # "" THEN Done(g.x, Parse(g.ret))
    ELSE LET f == RepoFindAndCount(g.x, F, skip, take) IN
         IF ~f.ok THEN Raise(f.x, "repo.findAndCount failed")
         ELSE Done(f.x, Page(f.data, f.count))

(***************************************************************************)
(* GenericService                                                          *)
(***************************************************************************)
GenericService_save(x0, F, entity, cm, newId) ==
    createEntity(x0, F, entity, cm, newId)

findById(x0, F, id, cm) == findEntityById(x0, F, id, cm)

update(x0, F, id, updatedData, cm, reports) ==
    updateEntity(x0, F, id, updatedData, cm, reports)

delete(x0, F, id, cm, reports) == deleteEntity(x0, F, id, cm, reports)

\* mutant of findAll: an exception of the repository is turned into an empty list
findAll_Swallows(x0, F, cm) ==
    LET r == getAllEntities(x0, F, cm)
    IN IF r.raised # "" THEN Done(r.x, List(<<>>)) ELSE r

findAll(x0, F, cm) == getAllEntities(x0, F, cm)

findWithPagination(x0, F, skip, take, cm) ==
    getEntitiesWithPagination(x0, F, skip, take, cm)

(***************************************************************************)
(* UserRepository                                                          *)
(***************************************************************************)
\* repo.findOneBy({ username }): one of the rows with that username, if any;
\* pick is the row the store answers with
RepoFindOneByUsername(x, F, username, pick) ==
    IF Throws(x, F)
    THEN [x |-> Logged(x, "repo.findOneBy(username)", username, "throw"),
          ok |-> FALSE, found |-> FALSE]
    ELSE IF pick \in DOMAIN x.db
    THEN [x |-> Logged(x, "repo.findOneBy(username)", username, "found"),
          ok |-> TRUE, found |-> TRUE, ret |-> EntityOf(pick, x.db[pick])]
    ELSE [x |-> Logged(x, "repo.findOneBy(username)", username, "none"),
          ok |-> TRUE, found |-> FALSE]

\* the method declares the username only: a cacheModel handed to it as a second
\* argument is dropped by the call
findUserByUsername(x0, F, username, cm, pick) ==
    LET f == RepoFindOneByUsername(x0, F, username, pick) IN
    IF ~f.ok \/ ~f.found THEN Done(f.x, Null) ELSE Done(f.x, Ent(f.ret))

(***************************************************************************)
(* Registration: AuthenticationService, PasswordService, UserService.save  *)
(***************************************************************************)
\* cognitoRegisterUser: the sign-up call to the identity provider
CognitoRegisterUser(x, F, username) ==
    IF Throws(x, F)
    THEN [x |-> Logged(x, "cognito.registerUser", username, "throw"), ok |-> FALSE]
    ELSE [x |-> Logged(x, "cognito.registerUser", username, "ok"), ok |-> TRUE]

\* the statement that follows cognitoUserCreated = true inside the try block
\* (the log line "User registered in Cognito"); it is the only place where the
\* try block can throw once the flag is set
LogRegistered(x, F, username) ==
    IF Throws(x, F)
    THEN [x |-> Logged(x, "logger.info", username, "throw"), ok |-> FALSE]
    ELSE [x |-> Logged(x, "logger.info", username, "ok"), ok |-> TRUE]

\* mutant of registerUserCatch: the cognitoUserCreated test is dropped
registerUserCatch_Unguarded(x1, F, username, cognitoUserCreated) ==
    LET a == CacheDelete(x1, F, username)
    IN IF ~a.ok THEN Raise(a.x, "cache.delete failed")
       ELSE LET b == CacheDelete(a.x, F, UserKey(username))
            IN IF b.ok THEN Done(b.x, Void) ELSE Raise(b.x, "cache.delete failed")

\* the catch block of registerUser
registerUserCatch(x1, F, username, cognitoUserCreated) ==
    LET a == IF cognitoUserCreated THEN CacheDelete(x1, F, username)
             ELSE [x |-> x1, ok |-> TRUE]
    IN IF ~a.ok THEN Raise(a.x, "cache.delete failed")
       ELSE LET b == CacheDelete(a.x, F, UserKey(username))
            IN IF b.ok THEN Done(b.x, Void) ELSE Raise(b.x, "cache.delete failed")

registerUser(x0, F, username, password, email) ==
    LET r == CognitoRegisterUser(x0, F, username) IN
    IF ~r.ok THEN registerUserCatch(r.x, F, username, FALSE)
    ELSE LET l == LogRegistered(r.x, F, username)
         IN IF l.ok THEN Done(l.x, Void)
            ELSE registerUserCatch(l.x, F, username, TRUE)

\* PasswordService.getPasswordEncrypted: key id from the parameter store, then
\* encryptPassword; raises when either fails
getPasswordEncrypted(x, F, password) ==
    IF Throws(x, F)
    THEN [x |-> Logged(x, "kms.encrypt", password, "throw"), ok |-> FALSE, ret |-> ""]
    ELSE [x |-> Logged(x, "kms.encrypt", password, "ok"), ok |-> TRUE,
          ret |-> Encrypt(password)]

\* mutant of save: the entity is created with the password as it was given
save_StoresGivenPassword(x0, F, entity, cm, newId) ==
    LET a == registerUser(x0, F, entity.username, entity.password, entity.email) IN
    IF a.raised # "" THEN Raise(a.x, "Registration failed")
    ELSE LET e == getPasswordEncrypted(a.x, F, entity.password) IN
         IF ~e.ok THEN Raise(e.x, "Registration failed")
         ELSE createEntity(e.x, F,
                           [id |-> NoId, username |-> entity.username,
                            password |-> entity.password, email |-> entity.email],
                           cm, newId)

\* UserService.save
save(x0, F, entity, cm, newId) ==
    LET a == registerUser(x0, F, entity.username, entity.password, entity.email) IN
    IF a.raised # "" THEN Raise(a.x, "Registration failed")
    ELSE LET e == getPasswordEncrypted(a.x, F, entity.password) IN
         IF ~e.ok THEN Raise(e.x, "Registration failed")
         ELSE createEntity(e.x, F,
                           [id |-> NoId, username |-> entity.username,
                            password |-> e.ret, email |-> entity.email],
                           cm, newId)

(***************************************************************************)
(* UserService: confirmation, authentication, password reset               *)
(***************************************************************************)
\* cognitoConfirmUserRegistration
CognitoConfirmUserRegistration(x, F, username, confirmationCode) ==
    LET arg == [Username |-> username, ConfirmationCode |-> confirmationCode] IN
    IF Throws(x, F)
    THEN [x |-> Logged(x, "cognito.confirmUserRegistration", arg, "throw"), ok |-> FALSE]
    ELSE [x |-> Logged(x, "cognito.confirmUserRegistration", arg, "ok"), ok |-> TRUE]

\* UserService.confirmRegistration, through AuthenticationService
confirmRegistration(x0, F, username, confirmationCode) ==
    LET c == CognitoConfirmUserRegistration(x0, F, username, confirmationCode) IN
    IF c.ok THEN Done(c.x, Void) ELSE Raise(c.x, "User confirmation failed")

\* cognitoAuthenticate: the IdToken of the response, which may carry none
CognitoAuthenticate(x, F, username, password, issues) ==
    IF Throws(x, F)
    THEN [x |-> Logged(x, "cognito.authenticate", username, "throw"),
          ok |-> FALSE, ret |-> ""]
    ELSE IF issues
    THEN [x |-> Logged(x, "cognito.authenticate", username, "token"),
          ok |-> TRUE, ret |-> "token:" \o username]
    ELSE [x |-> Logged(x, "cognito.authenticate", username, "none"),
          ok |-> TRUE, ret |-> ""]

\* AuthenticationService.authenticateUser: raises when there is no token
authenticateUser(x, F, username, password, issues) ==
    LET t == CognitoAuthenticate(x, F, username, password, issues)
    IN [x |-> t.x, ok |-> t.ok /\ t.ret # "", ret |-> t.ret]

\* the time to live of the entry authenticate writes
AuthTtl == 3600

AuthFailed == "Authentication failed: Invalid username or password"

\* mutant of authenticate: the cache is written on a hit as well, with the
\* cached value
authenticate_RewritesHit(x0, F, username, password, issues, pick) ==
    LET t == authenticateUser(x0, F, username, password, issues) IN
    IF ~t.ok THEN Raise(t.x, AuthFailed)
    ELSE LET g == CacheGet(t.x, F, UserKey(username)) IN
         IF ~g.ok THEN Raise(g.x, AuthFailed)
         ELSE LET u == IF g.ret # "" THEN Done(g.x, Parse(g.ret))
                       ELSE findUserByUsername(g.x, F, username, NoCM, pick) IN
              IF u.res.kind = "null" THEN Raise(u.x, AuthFailed)
              ELSE LET w == CacheSet(u.x, F, UserKey(username), Stringify(u.res),
                                     AuthTtl)
                   IN IF w.ok THEN Done(w.x, Token(t.ret)) ELSE Raise(w.x, AuthFailed)

\* mutant of authenticate: the token is returned although no user was found
authenticate_TokenWithoutUser(x0, F, username, password, issues, pick) ==
    LET t == authenticateUser(x0, F, username, password, issues) IN
    IF ~t.ok THEN Raise(t.x, AuthFailed)
    ELSE LET g == CacheGet(t.x, F, UserKey(username)) IN
         IF ~g.ok THEN Raise(g.x, AuthFailed)
         ELSE IF g.ret # "" THEN Done(g.x, Token(t.ret))
         ELSE LET u == findUserByUsername(g.x, F, username, NoCM, pick) IN
              IF u.res.kind = "null" THEN Done(u.x, Token(t.ret))
              ELSE LET w == CacheSet(u.x, F, UserKey(username), Stringify(u.res),
                                     AuthTtl)
                   IN IF w.ok THEN Done(w.x, Token(t.ret)) ELSE Raise(w.x, AuthFailed)

\* UserService.authenticate
authenticate(x0, F, username, password, issues, pick) ==
    LET t == authenticateUser(x0, F, username, password, issues) IN
    IF ~t.ok THEN Raise(t.x, AuthFailed)
    ELSE LET g == CacheGet(t.x, F, UserKey(username)) IN
         IF ~g.ok THEN Raise(g.x, AuthFailed)
         ELSE IF g.ret # "" THEN Done(g.x, Token(t.ret))
         ELSE LET u == findUserByUsername(g.x, F, username, NoCM, pick) IN
              IF u.res.kind = "null" THEN Raise(u.x, AuthFailed)
              ELSE LET w == CacheSet(u.x, F, UserKey(username), Stringify(u.res),
                                     AuthTtl)
                   IN IF w.ok THEN Done(w.x, Token(t.ret)) ELSE Raise(w.x, AuthFailed)

\* cognitoConfig.initiatePasswordReset
CognitoInitiatePasswordReset(x, F, username) ==
    IF Throws(x, F)
    THEN [x |-> Logged(x, "cognito.initiatePasswordReset", username, "throw"),
          ok |-> FALSE]
    ELSE [x |-> Logged(x, "cognito.initiatePasswordReset", username, "ok"), ok |-> TRUE]

\* mutant of initiatePasswordReset: the adapter's error is let through
initiatePasswordReset_Unwrapped(x0, F, username) ==
    LET c == CognitoInitiatePasswordReset(x0, F, username) IN
    IF c.ok
    THEN Done(c.x, Message("Password reset initiated. Check your email for the code."))
    ELSE Raise(c.x, "Password reset initiation failed")

\* UserService.initiatePasswordReset, through
\* PasswordService.initiateUserPasswordReset
initiatePasswordReset(x0, F, username) ==
    LET c == CognitoInitiatePasswordReset(x0, F, username) IN
    IF c.ok
    THEN Done(c.x, Message("Password reset initiated. Check your email for the code."))
    ELSE Raise(c.x, "Failed to initiate password reset")

\* mutant of resetPasswordInputValidator: the confirmation code is not looked at
resetPasswordInputValidator_IgnoresCode(username, password, confirmationCode) ==
    ~(username = "" \/ password = "")

\* resetPasswordInputValidator: TRUE when it does not throw
resetPasswordInputValidator(username, password, confirmationCode) ==
    ~(username = "" \/ password = "" \/ confirmationCode = "")

\* cognitoConfig.completePasswordReset: the ConfirmForgotPassword request
CognitoCompletePasswordReset(x, F, username, newPassword, confirmationCode) ==
    LET arg == [Username |-> username, Password |-> newPassword,
                ConfirmationCode |-> confirmationCode] IN
    IF Throws(x, F)
    THEN [x |-> Logged(x, "cognito.completePasswordReset", arg, "throw"), ok |-> FALSE]
    ELSE [x |-> Logged(x, "cognito.completePasswordReset", arg, "ok"), ok |-> TRUE]

\* mutant of completeUserPasswordReset: the adapter is handed the arguments in
\* the order of its own signature
completeUserPasswordReset_ByName(x, F, username, confirmationCode, newPassword) ==
    CognitoCompletePasswordReset(x, F, username, newPassword, confirmationCode)

\* PasswordService.completeUserPasswordReset
completeUserPasswordReset(x, F, username, confirmationCode, newPassword) ==
    CognitoCompletePasswordReset(x, F, username, confirmationCode, newPassword)

ResetFailed == "Failed to complete password reset"

\* mutant of completePasswordReset: a user that is not found is skipped over
completePasswordReset_SkipsMissingUser(x0, F, username, newPassword, confirmationCode, pick, reports) ==
    LET done == Message("Password reset successfully completed.") IN
    IF ~resetPasswordInputValidator(username, newPassword, confirmationCode)
    THEN Raise(x0, ResetFailed)
    ELSE LET c == completeUserPasswordReset(x0, F, username, newPassword,
                                            confirmationCode) IN
         IF ~c.ok THEN Raise(c.x, ResetFailed)
         ELSE LET e == getPasswordEncrypted(c.x, F, newPassword) IN
              IF ~e.ok THEN Raise(e.x, ResetFailed)
              ELSE LET u == findUserByUsername(e.x, F, username, NoCM, pick) IN
                   IF u.res.kind = "null" THEN Done(u.x, done)
                   ELSE Done(updateEntity(u.x, F, u.res.val.id,
                                          [password |-> e.ret], NoCM, reports).x,
                             done)

\* UserService.completePasswordReset
completePasswordReset(x0, F, username, newPassword, confirmationCode, pick, reports) ==
    IF ~resetPasswordInputValidator(username, newPassword, confirmationCode)
    THEN Raise(x0, ResetFailed)
    ELSE LET c == completeUserPasswordReset(x0, F, username, newPassword,
                                            confirmationCode) IN
         IF ~c.ok THEN Raise(c.x, ResetFailed)
         ELSE LET e == getPasswordEncrypted(c.x, F, newPassword) IN
              IF ~e.ok THEN Raise(e.x, ResetFailed)
              ELSE LET u == findUserByUsername(e.x, F, username, NoCM, pick) IN
                   IF u.res.kind = "null" THEN Raise(u.x, ResetFailed)
                   ELSE Done(updateEntity(u.x, F, u.res.val.id,
                                          [password |-> e.ret], NoCM, reports).x,
                             Message("Password reset successfully completed."))

(***************************************************************************)
(* The state machine                                                       *)
(***************************************************************************)
Idle == [op |-> "idle"]

\* the cache facade once its start-up has run to the end: the connection URL
\* was fetched, one client was created, get/set/delete are installed
Installed == [fetch |-> "resolved", installed |-> TRUE, clients |-> 1]

\* the cache facade as the module exports it: an object without methods, the
\* fetch of the connection URL still pending
Exported == [fetch |-> "pending", installed |-> FALSE, clients |-> 0]

\* callers that have invocations in flight at the same time
Callers == {"c1", "c2"}

\* a caller that has not invoked anything
NoTask == [op |-> "none", pc |-> "idle"]
NoTasks == [c \in Callers |-> NoTask]

\* the invocation op(arg, cm) has returned r; pre is the world it started in,
\* prev the invocation it followed without a pause (Idle if none)
Finish(op, arg, cm, r) ==
    /\ db' = r.x.db
    /\ cache' = r.x.cache
    /\ last' = [op |-> op, arg |-> arg, cm |-> cm, res |-> r.res,
                raised |-> r.raised, calls |-> r.x.calls,
                pre |-> [db |-> db, cache |-> cache], prev |-> last]
    /\ UNCHANGED <<tasks, facade>>

\* entities handed to the repository directly carry an encrypted password
RepoEntities == {e \in Entities : e.password \in Stored}
PartialData == [username : Usernames]

\* a generated id is one the store does not hold yet
FreshIds(e) == IF e.id = NoId THEN Ids \ DOMAIN db ELSE {e.id}

Init ==
    /\ db = <<>>
    /\ cache = <<>>
    /\ last = Idle
    /\ tasks = NoTasks
    /\ facade = Installed

CreateEntity ==
    /\ last.op = "idle"
    /\ \E entity \in RepoEntities, cm \in OptCacheModels, F \in SUBSET (1..3) :
         \E newId \in FreshIds(entity) :
            Finish("createEntity", entity, cm,
                   createEntity(Start(db, cache), F, entity, cm, newId))

\* also invoked right after a createEntity or a deleteEntity has returned
FindEntityById ==
    /\ last.op \in {"idle", "createEntity", "deleteEntity"}
    /\ \E id \in Ids, cm \in OptCacheModels, F \in SUBSET (1..3) :
         Finish("findEntityById", id, cm, findEntityById(Start(db, cache), F, id, cm))

UpdateEntity ==
    /\ last.op = "idle"
    /\ \E id \in Ids, data \in PartialData, cm \in OptCacheModels,
          F \in SUBSET (1..5), reports \in BOOLEAN :
         Finish("updateEntity", [id |-> id, data |-> data], cm,
                updateEntity(Start(db, cache), F, id, data, cm, reports))

DeleteEntity ==
    /\ last.op = "idle"
    /\ \E id \in Ids, cm \in OptCacheModels, F \in SUBSET (1..2), reports \in BOOLEAN :
         Finish("deleteEntity", id, cm,
                deleteEntity(Start(db, cache), F, id, cm, reports))

GetAllEntities ==
    /\ last.op = "idle"
    /\ \E cm \in OptCacheModels, F \in SUBSET (1..3) :
         Finish("getAllEntities", 0, cm, getAllEntities(Start(db, cache), F, cm))

GetEntitiesWithPagination ==
    /\ last.op = "idle"
    /\ \E skip \in 0..MaxId, take \in 1..MaxId, cm \in OptCacheModels,
          F \in SUBSET (1..2) :
         Finish("getEntitiesWithPagination", [skip |-> skip, take |-> take], cm,
                getEntitiesWithPagination(Start(db, cache), F, skip, take, cm))

\* users to register carry a plaintext password
NewUsers == {e \in Entities : e.password \in Plain /\ e.id = NoId}

Save ==
    /\ last.op = "idle"
    /\ \E entity \in NewUsers, cm \in OptCacheModels, F \in SUBSET (1..8) :
         \E newId \in Ids \ DOMAIN db :
            Finish("save", entity, cm, save(Start(db, cache), F, entity, cm, newId))

\* the rows the store can answer a lookup by username with (NoId: no row)
Matches(username) ==
    LET M == {i \in DOMAIN db : db[i].username = username}
    IN IF M = {} THEN {NoId} ELSE M

FindUserByUsername ==
    /\ last.op = "idle"
    /\ \E username \in Usernames, cm \in OptCacheModels, F \in SUBSET (1..1) :
         \E pick \in Matches(username) :
            Finish("findUserByUsername", username, cm,
                   findUserByUsername(Start(db, cache), F, username, cm, pick))

\* AuthenticationService.registerUser called on its own
RegisterUser ==
    /\ last.op = "idle"
    /\ \E u \in NewUsers, F \in SUBSET (1..4) :
         Finish("registerUser", u.username, NoCM,
                registerUser(Start(db, cache), F, u.username, u.password, u.email))

\* a cache entry reaches its expiration and is dropped by the cache server
Expire ==
    /\ last.op = "idle"
    /\ \E k \in DOMAIN cache : cache' = Restrict(cache, DOMAIN cache \ {k})
    /\ UNCHANGED <<db, last, tasks, facade>>

\* the caller has consumed the result of the invocation
Resume ==
    /\ last.op # "idle"
    /\ last' = Idle
    /\ UNCHANGED <<db, cache, tasks, facade>>

Next ==
    \/ CreateEntity
    \/ FindEntityById
    \/ UpdateEntity
    \/ DeleteEntity
    \/ GetAllEntities
    \/ GetEntitiesWithPagination
    \/ FindUserByUsername
    \/ Save
    \/ RegisterUser
    \/ Expire
    \/ Resume

Spec == Init /\ [][Next]_vars

(***************************************************************************)
(* The same store and cache driven through a GenericService                *)
(***************************************************************************)
ServiceSave ==
    /\ last.op = "idle"
    /\ \E entity \in RepoEntities, cm \in OptCacheModels, F \in SUBSET (1..3) :
         \E newId \in FreshIds(entity) :
            Finish("GenericService.save", entity, cm,
                   GenericService_save(Start(db, cache), F, entity, cm, newId))

ServiceFindById ==
    /\ last.op = "idle"
    /\ \E id \in Ids, cm \in OptCacheModels, F \in SUBSET (1..3) :
         Finish("GenericService.findById", id, cm,
                findById(Start(db, cache), F, id, cm))

ServiceUpdate ==
    /\ last.op = "idle"
    /\ \E id \in Ids, data \in PartialData, cm \in OptCacheModels,
          F \in SUBSET (1..5), reports \in BOOLEAN :
         Finish("GenericService.update", [id |-> id, data |-> data], cm,
                update(Start(db, cache), F, id, data, cm, reports))

ServiceDelete ==
    /\ last.op = "idle"
    /\ \E id \in Ids, cm \in OptCacheModels, F \in SUBSET (1..2), reports \in BOOLEAN :
         Finish("GenericService.delete", id, cm,
                delete(Start(db, cache), F, id, cm, reports))

ServiceFindAll ==
    /\ last.op = "idle"
    /\ \E cm \in OptCacheModels, F \in SUBSET (1..3) :
         Finish("GenericService.findAll", 0, cm, findAll(Start(db, cache), F, cm))

ServiceFindWithPagination ==
    /\ last.op = "idle"
    /\ \E skip \in 0..MaxId, take \in 1..MaxId, cm \in OptCacheModels,
          F \in SUBSET (1..2) :
         Finish("GenericService.findWithPagination", [skip |-> skip, take |-> take], cm,
                findWithPagination(Start(db, cache), F, skip, take, cm))

ServiceNext ==
    \/ ServiceSave
    \/ ServiceFindById
    \/ ServiceUpdate
    \/ ServiceDelete
    \/ ServiceFindAll
    \/ ServiceFindWithPagination
    \/ Expire
    \/ Resume

ServiceSpec == Init /\ [][ServiceNext]_vars

(***************************************************************************)
(* The store and the cache driven through the UserService workflows        *)
(***************************************************************************)
\* an argument the caller may have left empty
OrEmpty(S) == S \cup {""}

\* the registration handler's call: save(user) with no cacheModel
Register ==
    /\ last.op = "idle"
    /\ \E entity \in NewUsers, F \in SUBSET (1..6) :
         \E newId \in Ids \ DOMAIN db :
            Finish("save", entity, NoCM, save(Start(db, cache), F, entity, NoCM, newId))

\* UserController.registerUser: the handler answers every request, so nothing
\* is raised to its caller
UserController_registerUser(x0, F, username, password, email, newId) ==
    IF username = "" \/ password = "" \/ email = ""
    THEN Done(x0, Http(400, "Missing required fields: username, password, or email"))
    ELSE LET r == save(x0, F,
                       [id |-> NoId, username |-> username, password |-> password,
                        email |-> email],
                       NoCM, newId)
         IN IF r.raised # "" THEN Done(r.x, Http(500, "Failed to register user"))
            ELSE Done(r.x, Http(200, "User registered successfully"))

RegisterUserHandler ==
    /\ last.op = "idle"
    /\ \E username \in OrEmpty(Usernames), password \in OrEmpty(Plain),
          email \in OrEmpty(Emails), F \in SUBSET (1..6) :
         \E newId \in Ids \ DOMAIN db :
            Finish("UserController.registerUser",
                   [username |-> username, password |-> password, email |-> email],
                   NoCM,
                   UserController_registerUser(Start(db, cache), F, username,
                                               password, email, newId))

ConfirmRegistration ==
    /\ last.op = "idle"
    /\ \E username \in Usernames, code \in Codes, F \in SUBSET (1..1) :
         Finish("confirmRegistration", [username |-> username, confirmationCode |-> code],
                NoCM, confirmRegistration(Start(db, cache), F, username, code))

Authenticate ==
    /\ last.op = "idle"
    /\ \E username \in Usernames, password \in Plain, issues \in BOOLEAN,
          F \in SUBSET (1..4) :
         \E pick \in Matches(username) :
            Finish("authenticate", [username |-> username, password |-> password], NoCM,
                   authenticate(Start(db, cache), F, username, password, issues, pick))

InitiatePasswordReset ==
    /\ last.op = "idle"
    /\ \E username \in OrEmpty(Usernames), F \in SUBSET (1..1) :
         Finish("initiatePasswordReset", username, NoCM,
                initiatePasswordReset(Start(db, cache), F, username))

\* the calls of completePasswordReset that fail: the first failure before the
\* update ends the workflow, and updateEntity goes on after at most one more, so
\* a third failing call is never reached
ResetFaults == {F \in SUBSET (1..7) : Cardinality(F) <= 2}

CompletePasswordReset ==
    /\ last.op = "idle"
    /\ \E username \in OrEmpty(Usernames), newPassword \in OrEmpty(NewPlain),
          code \in OrEmpty(Codes), F \in ResetFaults, reports \in BOOLEAN :
         \E pick \in Matches(username) :
            Finish("completePasswordReset",
                   [username |-> username, newPassword |-> newPassword,
                    confirmationCode |-> code],
                   NoCM,
                   completePasswordReset(Start(db, cache), F, username, newPassword,
                                         code, pick, reports))

UserNext ==
    \/ Register
    \/ RegisterUserHandler
    \/ ConfirmRegistration
    \/ Authenticate
    \/ InitiatePasswordReset
    \/ CompletePasswordReset
    \/ DeleteEntity
    \/ Expire
    \/ Resume

UserSpec == Init /\ [][UserNext]_vars

(***************************************************************************)
(* UserRepository: the repository of users that is not built on            *)
(* GenericRepository and uses no cache                                     *)
(***************************************************************************)
\* UserRepository.findUserByUsername: no try/catch of its own
UserRepository_findUserByUsername(x0, F, username, pick) ==
    LET f == RepoFindOneByUsername(x0, F, username, pick) IN
    IF ~f.ok THEN Raise(f.x, "repo.findOneBy failed")
    ELSE IF f.found THEN Done(f.x, Ent(f.ret)) ELSE Done(f.x, Null)

\* UserRepository.deleteUser: every failure is logged and swallowed
deleteUser(x0, F, id, reports) == Done(RepoDelete(x0, F, id, reports).x, Void)

createUser(x0, F, user, newId, pick, reports) ==
    LET s == RepoSave(x0, F, user, newId) IN
    IF s.ok THEN Done(s.x, Ent(s.ret))
    ELSE LET f == UserRepository_findUserByUsername(s.x, F, user.username, pick) IN
         IF f.raised # "" THEN f
         ELSE IF f.res.kind = "null" THEN Done(f.x, Null)
         ELSE Done(deleteUser(f.x, F, f.res.val.id, reports).x, Null)

CreateUser ==
    /\ last.op = "idle"
    /\ \E user \in RepoEntities, F \in SUBSET (1..3), reports \in BOOLEAN :
         \E newId \in FreshIds(user), pick \in Matches(user.username) :
            Finish("createUser", user, NoCM,
                   createUser(Start(db, cache), F, user, newId, pick, reports))

DeleteUser ==
    /\ last.op = "idle"
    /\ \E id \in Ids, F \in SUBSET (1..1), reports \in BOOLEAN :
         Finish("deleteUser", id, NoCM, deleteUser(Start(db, cache), F, id, reports))

UserRepositoryNext == CreateUser \/ DeleteUser \/ Resume

UserRepositorySpec == Init /\ [][UserRepositoryNext]_vars

(***************************************************************************)
(* Concurrent callers of the repository.  An invocation runs from one      *)
(* awaited call to the next without interruption; between two awaited      *)
(* calls the invocations of other callers may run.  Each action below is   *)
(* one awaited call of one invocation together with the code that follows  *)
(* it up to the next await or the return.                                  *)
(***************************************************************************)
\* at most one awaited call of an invocation fails
OneFault(n) == {F \in SUBSET (1..n) : Cardinality(F) <= 1}

Pending == [kind |-> "pending"]

\* the ids the concurrent callers work on
SharedIds == {1}

\* the world as the invocation of caller c sees it at its next awaited call
World(c) ==
    [db |-> db, cache |-> cache, calls |-> tasks[c].calls, installed |-> facade.installed]

\* caller c invokes op(arg, cm); its first awaited call is the one at pc
Invoke(c, op, arg, cm, F, pc) ==
    /\ tasks[c].pc = "idle"
    /\ tasks' = [tasks EXCEPT ![c] =
                    [op |-> op, arg |-> arg, cm |-> cm, F |-> F, pc |-> pc,
                     calls |-> <<>>, ent |-> Null, res |-> Pending]]
    /\ UNCHANGED <<db, cache, last, facade>>

\* the awaited call left the world x; the invocation of c goes on at pc
Goto(c, x, pc, ent) ==
    /\ db' = x.db
    /\ cache' = x.cache
    /\ tasks' = [tasks EXCEPT ![c].calls = x.calls, ![c].pc = pc, ![c].ent = ent]
    /\ UNCHANGED <<last, facade>>

\* the awaited call left the world x; the invocation of c returns res
Return(c, x, res) ==
    /\ db' = x.db
    /\ cache' = x.cache
    /\ tasks' = [tasks EXCEPT ![c].calls = x.calls, ![c].pc = "done", ![c].res = res]
    /\ UNCHANGED <<last, facade>>

At(c, op, pc) == tasks[c].op = op /\ tasks[c].pc = pc

CallFindEntityById ==
    \E c \in Callers, id \in SharedIds, cm \in OptCacheModels, F \in OneFault(3) :
        Invoke(c, "findEntityById", [id |-> id], cm, F,
               IF cm = NoCM THEN "findOneBy" ELSE "get")

\* findEntityById: cache.get
FindEntityById_Get ==
    \E c \in Callers :
        /\ At(c, "findEntityById", "get")
        /\ LET t == tasks[c]
               g == CacheGet(World(c), t.F, t.cm.key)
           IN IF ~g.ok THEN Return(c, g.x, Null)
              ELSE IF g.ret # "" THEN Return(c, g.x, Parse(g.ret))
              ELSE Goto(c, g.x, "findOneBy", Null)

\* findEntityById: repo.findOneBy
FindEntityById_FindOneBy ==
    \E c \in Callers :
        /\ At(c, "findEntityById", "findOneBy")
        /\ LET t == tasks[c]
               f == RepoFindOneBy(World(c), t.F, t.arg.id)
           IN IF ~f.ok \/ ~f.found THEN Return(c, f.x, Null)
              ELSE IF t.cm = NoCM THEN Return(c, f.x, Ent(f.ret))
              ELSE Goto(c, f.x, "set", Ent(f.ret))

\* findEntityById: cache.set
FindEntityById_Set ==
    \E c \in Callers :
        /\ At(c, "findEntityById", "set")
        /\ LET t == tasks[c]
               w == CacheSet(World(c), t.F, t.cm.key, Stringify(t.ent), t.cm.expiration)
           IN Return(c, w.x, IF w.ok THEN t.ent ELSE Null)

CallDeleteEntity ==
    \E c \in Callers, id \in SharedIds, cm \in OptCacheModels, F \in OneFault(2) :
        Invoke(c, "deleteEntity", [id |-> id], cm, F, "delete")

\* deleteEntity: repo.delete
DeleteEntity_Delete ==
    \E c \in Callers, reports \in BOOLEAN :
        /\ At(c, "deleteEntity", "delete")
        /\ LET t == tasks[c]
               d == RepoDelete(World(c), t.F, t.arg.id, reports)
           IN IF ~d.ok \/ d.affected = 0 THEN Return(c, d.x, Bool(FALSE))
              ELSE IF t.cm = NoCM THEN Return(c, d.x, Bool(TRUE))
              ELSE Goto(c, d.x, "evict", Null)

\* deleteEntity: cache.delete
DeleteEntity_Evict ==
    \E c \in Callers :
        /\ At(c, "deleteEntity", "evict")
        /\ LET t == tasks[c]
               e == CacheDelete(World(c), t.F, t.cm.key)
           IN Return(c, e.x, Bool(e.ok))

CallUpdateEntity ==
    \E c \in Callers, id \in SharedIds, data \in PartialData,
       cm \in OptCacheModels, F \in OneFault(3) :
        Invoke(c, "updateEntity", [id |-> id, data |-> data], cm, F, "update")

\* updateEntity: repo.update
UpdateEntity_Update ==
    \E c \in Callers :
        /\ At(c, "updateEntity", "update")
        /\ LET t == tasks[c]
               u == RepoUpdate(World(c), t.F, t.arg.id, t.arg.data)
           IN Goto(c, u.x, IF u.ok THEN "reread" ELSE "rollback", Null)

\* updateEntity: findEntityById(id), one repo.findOneBy
UpdateEntity_Reread ==
    \E c \in Callers :
        /\ At(c, "updateEntity", "reread")
        /\ LET t == tasks[c]
               f == RepoFindOneBy(World(c), t.F, t.arg.id)
           IN IF ~f.ok \/ ~f.found THEN Goto(c, f.x, "rollback", Null)
              ELSE IF t.cm = NoCM THEN Return(c, f.x, Ent(f.ret))
              ELSE Goto(c, f.x, "set", Ent(f.ret))

\* updateEntity: cache.set
UpdateEntity_Set ==
    \E c \in Callers :
        /\ At(c, "updateEntity", "set")
        /\ LET t == tasks[c]
               w == CacheSet(World(c), t.F, t.cm.key, Stringify(t.ent), t.cm.expiration)
           IN IF w.ok THEN Return(c, w.x, t.ent) ELSE Goto(c, w.x, "rollback", Null)

\* updateEntity, catch block: findEntityById(id), one repo.findOneBy
UpdateEntity_RollbackFind ==
    \E c \in Callers :
        /\ At(c, "updateEntity", "rollback")
        /\ LET t == tasks[c]
               f == RepoFindOneBy(World(c), t.F, t.arg.id)
           IN IF ~f.ok \/ ~f.found THEN Return(c, f.x, Null)
              ELSE Goto(c, f.x, "rollbackDelete", Ent(f.ret))

\* updateEntity, catch block: deleteEntity(foundEntity.id), one repo.delete
UpdateEntity_RollbackDelete ==
    \E c \in Callers, reports \in BOOLEAN :
        /\ At(c, "updateEntity", "rollbackDelete")
        /\ LET t == tasks[c]
               d == RepoDelete(World(c), t.F, t.ent.val.id, reports)
           IN Return(c, d.x, Null)

\* the callers start on a store that holds one entity, cached or not
ConcInit ==
    /\ \E e \in RepoEntities :
          /\ e.id \in SharedIds
          /\ db = [i \in {e.id} |-> RowOf(e)]
          /\ \/ cache = <<>>
             \/ \E cm \in CacheModels :
                   cache = [k \in {cm.key} |->
                               [value |-> Stringify(Ent(e)), ttl |-> cm.expiration]]
    /\ last = Idle
    /\ tasks = NoTasks
    /\ facade = Installed

ConcNext ==
    \/ CallFindEntityById
    \/ FindEntityById_Get
    \/ FindEntityById_FindOneBy
    \/ FindEntityById_Set
    \/ CallDeleteEntity
    \/ DeleteEntity_Delete
    \/ DeleteEntity_Evict
    \/ CallUpdateEntity
    \/ UpdateEntity_Update
    \/ UpdateEntity_Reread
    \/ UpdateEntity_Set
    \/ UpdateEntity_RollbackFind
    \/ UpdateEntity_RollbackDelete

ConcSpec == ConcInit /\ [][ConcNext]_vars

(***************************************************************************)
(* Start-up of the process: the cache facade is exported at once and       *)
(* filled in by an asynchronous function nobody awaits, while the          *)
(* repository is already open to calls                                     *)
(***************************************************************************)
\* getCachedParameter resolved: the client is created, the methods installed
CacheInitialised ==
    /\ facade.fetch = "pending"
    /\ facade' = [fetch |-> "resolved", installed |-> TRUE,
                  clients |-> facade.clients + 1]
    /\ UNCHANGED <<db, cache, last, tasks>>

\* getCachedParameter rejected: the function ends before createClient
CacheInitFailed ==
    /\ facade.fetch = "pending"
    /\ facade' = [facade EXCEPT !.fetch = "rejected"]
    /\ UNCHANGED <<db, cache, last, tasks>>

StartupInit ==
    /\ db = <<>>
    /\ cache = <<>>
    /\ last = Idle
    /\ tasks = NoTasks
    /\ facade = Exported

StartupNext ==
    \/ CacheInitialised
    \/ CacheInitFailed
    \/ CreateEntity
    \/ FindEntityById
    \/ DeleteEntity
    \/ Expire
    \/ Resume

StartupSpec == StartupInit /\ [][StartupNext]_vars

(***************************************************************************)
(* Reading the call log of the invocation that has just returned           *)
(***************************************************************************)
RepoOps == {"createEntity", "findEntityById", "updateEntity", "deleteEntity",
            "getAllEntities", "getEntitiesWithPagination"}
CacheFns == {"cache.get", "cache.set", "cache.delete"}

CallIdx(calls, fn) == {i \in DOMAIN calls : calls[i].fn = fn}
NoThrow(calls) == \A i \in DOMAIN calls : calls[i].out # "throw"
Called(calls, fn, out) == \E i \in DOMAIN calls : calls[i].fn = fn /\ calls[i].out = out
IsEntity(res, e) == res.kind = "entity" /\ res.val = e

(***************************************************************************)
(* C1  createEntity then findEntityById                                    *)
(***************************************************************************)
\* findEntityById(E.id, C) was invoked right after createEntity(E, C) returned
C1_Case ==
    /\ last.op = "findEntityById"
    /\ last.prev.op = "createEntity"
    /\ last.cm # NoCM
    /\ last.cm = last.prev.cm
    /\ last.prev.arg.id # NoId => last.arg = last.prev.arg.id
    /\ NoThrow(last.prev.calls)
    /\ NoThrow(last.calls)

C1_Hit ==
    /\ IsEntity(last.res, last.prev.arg)
    /\ last.calls = <<[fn |-> "cache.get", arg |-> last.cm.key, out |-> "hit"]>>

C2_UpdateThrew ==
    /\ last.op = "updateEntity"
    /\ last.calls[1].fn = "repo.update"
    /\ last.calls[1].out = "throw"

C2_OneDeleteThenNull ==
    /\ Cardinality(CallIdx(last.calls, "repo.delete")) = 1
    /\ \A i \in CallIdx(last.calls, "repo.delete") : last.calls[i].arg = last.arg.id
    /\ last.res = Null
    /\ last.raised = ""

\* C2 as stated: the update call throws and an entity with that id exists: exactly
\* one delete call for that id, then null.
C2_AsStated ==
    (C2_UpdateThrew /\ last.arg.id \in DOMAIN last.pre.db) => C2_OneDeleteThenNull

\* C2 amended: the update call throws and the rollback's lookup finds the entity
\* with that id: exactly one delete call to the store, for that id, then null.
C2_RollbackDeletesOnce ==
    (C2_UpdateThrew /\ Called(last.calls, "repo.findOneBy", "found"))
        => C2_OneDeleteThenNull

C2_Witness ==
    /\ C2_UpdateThrew
    /\ Called(last.calls, "repo.findOneBy", "found")
    /\ last.arg.id \in DOMAIN last.pre.db
    /\ last.arg.id \notin DOMAIN db

(***************************************************************************)
(* C3  no cacheModel: the cache is bypassed                                *)
(***************************************************************************)
\* C3: a repository operation invoked without a cacheModel makes no cache.get,
\* cache.set or cache.delete call, leaves the cache as it was, and calls the
\* backing store only.
C3_NoCacheModelBypassesCache ==
    (last.op \in RepoOps /\ last.cm = NoCM) =>
        /\ \A i \in DOMAIN last.calls : last.calls[i].fn \notin CacheFns
        /\ cache = last.pre.cache
        /\ \A i \in DOMAIN last.calls :
              last.calls[i].fn \in {"repo.save", "repo.findOneBy", "repo.update",
                                    "repo.delete", "repo.find", "repo.findAndCount"}

\* a read without a cacheModel that found the row while the cache held an entry
C3_Witness ==
    /\ last.op = "findEntityById"
    /\ last.cm = NoCM
    /\ last.res.kind = "entity"
    /\ cache # <<>>

(***************************************************************************)
(* C4  deleteEntity: zero affected rows                                    *)
(***************************************************************************)
C4_ZeroAffected ==
    /\ last.op = "deleteEntity"
    /\ last.cm # NoCM
    /\ last.calls[1].fn = "repo.delete"
    /\ last.calls[1].out = "affected:0"

\* C4: deleteEntity(id, C) where the store reports zero affected rows returns
\* false, does not call cache.delete and leaves the cache as it was.
C4_ZeroAffectedNoEviction ==
    C4_ZeroAffected =>
        /\ last.res = Bool(FALSE)
        /\ CallIdx(last.calls, "cache.delete") = {}
        /\ cache = last.pre.cache

\* zero rows affected while the cache holds an entry under C.key
C4_Witness == C4_ZeroAffected /\ last.cm.key \in DOMAIN cache

(***************************************************************************)
(* C5  registration: the success path                                      *)
(***************************************************************************)
\* the registration step ran through (the provider call and the statement
\* after it), the encryption returned, and the store saved the row
C5_StepsSucceeded ==
    /\ last.op = "save"
    /\ Called(last.calls, "cognito.registerUser", "ok")
    /\ Called(last.calls, "logger.info", "ok")
    /\ Called(last.calls, "kms.encrypt", "ok")
    /\ Called(last.calls, "repo.save", "ok")

C5_ReturnsPersistedEncrypted ==
    /\ last.raised = ""
    /\ last.res.kind = "entity"
    /\ last.res.val.password = Encrypt(last.arg.password)
    /\ last.res.val.password # last.arg.password
    /\ last.res.val.username = last.arg.username
    /\ last.res.val.id \in DOMAIN db
    /\ db[last.res.val.id] = RowOf(last.res.val)

C5_NoCompensation ==
    /\ CallIdx(last.calls, "cache.delete") = {}
    /\ CallIdx(last.calls, "repo.delete") = {}

C6_ProviderFailed ==
    /\ last.op = "save"
    /\ last.calls[1].fn = "cognito.registerUser"
    /\ last.calls[1].out = "throw"

\* C6: when the identity-provider call fails, the only compensating action is one
\* cache deletion, of the key user:<username>; a deletion keyed by the bare
\* username is issued only if the identity-provider call had succeeded.
C6_OnlyUserKeyDeleted ==
    /\ C6_ProviderFailed =>
         /\ Cardinality(CallIdx(last.calls, "cache.delete")) = 1
         /\ \A i \in CallIdx(last.calls, "cache.delete") :
               last.calls[i].arg = UserKey(last.arg.username)
         /\ CallIdx(last.calls, "repo.delete") = {}
    /\ last.op = "save" =>
         \A i \in CallIdx(last.calls, "cache.delete") :
            last.calls[i].arg = last.arg.username =>
               /\ last.calls[1].fn = "cognito.registerUser"
               /\ last.calls[1].out = "ok"

\* the provider failed for user a while the cache held user:a, which is now gone
C6_Witness ==
    /\ C6_ProviderFailed
    /\ UserKey(last.arg.username) \in DOMAIN last.pre.cache
    /\ Called(last.calls, "cache.delete", "ok")
    /\ UserKey(last.arg.username) \notin DOMAIN cache

(***************************************************************************)
(* C7  pagination on a cache miss                                          *)
(***************************************************************************)
C7_Miss ==
    /\ last.op = "getEntitiesWithPagination"
    /\ last.cm # NoCM
    /\ last.cm.key \notin DOMAIN last.pre.cache
    /\ last.calls[1].out = "miss"

\* the window {skip, take} of the rows the store held, and their number
C7_Window(d, skip, take) ==
    LET all == AllRows(d)
        n == Cardinality(DOMAIN d)
    IN Page([i \in 1..(IF skip + take < n THEN take
                        ELSE IF n > skip THEN n - skip ELSE 0) |-> all[skip + i]], n)

\* C7: getEntitiesWithPagination(skip, take, C) with no cache entry under C.key
\* queries the store once, with exactly {skip, take}, returns the store's
\* {data, count}, and leaves the cache as it was.
C7_MissQueriesStoreOnly ==
    C7_Miss =>
        /\ Len(last.calls) = 2
        /\ last.calls[2].fn = "repo.findAndCount"
        /\ last.calls[2].arg = last.arg
        /\ cache = last.pre.cache
        /\ last.calls[2].out = "ok" =>
              /\ last.raised = ""
              /\ last.res = C7_Window(last.pre.db, last.arg.skip, last.arg.take)

\* a miss that returned a non-empty window smaller than the table
C7_Witness ==
    /\ C7_Miss
    /\ last.calls[2].out = "ok"
    /\ last.res.kind = "page"
    /\ Len(last.res.data) = 1
    /\ last.res.count = 2
    /\ last.arg.skip = 1

(***************************************************************************)
(* C8  the cache holds snapshots of the store                              *)
(***************************************************************************)
\* the operation used a key and wrote or read the value it returned to or from
\* the store (for createEntity only entities that carry their id are looked at:
\* the entity written is then the entity passed)
C8_TouchedStore ==
    /\ last.op \in {"createEntity", "findEntityById", "updateEntity", "getAllEntities"}
    /\ last.op = "createEntity" => last.arg.id # NoId
    /\ last.cm # NoCM
    /\ last.res.kind \in {"entity", "list"}
    /\ \/ Called(last.calls, "repo.save", "ok")
       \/ Called(last.calls, "repo.findOneBy", "found")
       \/ Called(last.calls, "repo.find", "ok")

\* C8: a value present in the cache under a key is the serialized snapshot of the
\* entity (or list) as last written to or read from the store by a repository
\* operation that used that key.
C8_AsStated ==
    (C8_TouchedStore /\ last.cm.key \in DOMAIN cache)
        => cache[last.cm.key].value = Stringify(last.res)

(***************************************************************************)
(* C9  registration: every failing step raises                             *)
(***************************************************************************)
C9_StepFailed ==
    /\ last.op = "save"
    /\ \/ Called(last.calls, "cognito.registerUser", "throw")
       \/ Called(last.calls, "kms.encrypt", "throw")
       \/ Called(last.calls, "repo.save", "throw")

\* C9: save raises 'Registration failed' whenever the identity-provider
\* registration, the encryption or the persistence fails.
C9_AsStated == C9_StepFailed => last.raised = "Registration failed"

(***************************************************************************)
(* C10  registration: order of the steps                                   *)
(***************************************************************************)
C10_Steps == {"cognito.registerUser", "kms.encrypt", "repo.save"}

\* C10: the steps run in the order identity provider, encryption, persistence;
\* the entity is persisted only after the account was created and the password
\* encrypted; a failing step ends the workflow in FAILED with no later step run.
C10_AsStated ==
    last.op = "save" =>
        /\ \A i \in CallIdx(last.calls, "repo.save") :
              /\ \E j \in 1..(i - 1) : /\ last.calls[j].fn = "cognito.registerUser"
                                       /\ last.calls[j].out = "ok"
              /\ \E j \in 1..(i - 1) : /\ last.calls[j].fn = "kms.encrypt"
                                       /\ last.calls[j].out = "ok"
        /\ \A i \in DOMAIN last.calls :
              (last.calls[i].fn \in C10_Steps /\ last.calls[i].out = "throw") =>
                 /\ last.raised # ""
                 /\ \A j \in (i + 1)..Len(last.calls) : last.calls[j].fn \notin C10_Steps

(***************************************************************************)
(* C11  a failing compensating action is only logged                       *)
(***************************************************************************)
\* a call that ends the try block of updateEntity: it threw, or it is the
\* re-read that found nothing
C11_EndsTry(c) == c.out = "throw" \/ (c.fn = "repo.findOneBy" /\ c.out = "none")

\* a compensating call of the invocation threw: a cache.delete of registerUser's
\* catch block, or a call updateEntity made after its try block had given up
C11_CompensationFailed ==
    \/ /\ last.op = "registerUser"
       /\ Called(last.calls, "cache.delete", "throw")
    \/ /\ last.op = "updateEntity"
       /\ \E i, j \in DOMAIN last.calls :
            i < j /\ C11_EndsTry(last.calls[i]) /\ last.calls[j].out = "throw"

\* C11: when a compensating action fails (a cache deletion of the registration
\* rollback, the find or the delete of the updateEntity rollback), the failure
\* is not what the caller gets: nothing is raised for it, and updateEntity
\* still reports its failure result null.
C11_AsStated ==
    C11_CompensationFailed =>
        /\ last.raised = ""
        /\ last.op = "updateEntity" => last.res = Null

(***************************************************************************)
(* C12  compensation for the committed effects of a failed registration    *)
(***************************************************************************)
\* the compensating call for the identity-provider account of last.arg: the
\* deletion registerUser issues under its cognitoUserCreated flag
C12_AccountCompensated ==
    \E i \in CallIdx(last.calls, "cache.delete") :
        last.calls[i].arg = last.arg.username

\* the account was created and a later step of the workflow failed
C12_FailedAfterAccount ==
    /\ last.op = "save"
    /\ Called(last.calls, "cognito.registerUser", "ok")
    /\ \/ Called(last.calls, "kms.encrypt", "throw")
       \/ Called(last.calls, "repo.save", "throw")

\* C12: when a step of the registration workflow fails, compensating calls are
\* issued for, and only for, the effects that have committed: the account's
\* compensation is issued only if the account was created, and it is issued
\* whenever encryption or persistence fails after the account was created.
C12_AsStated ==
    /\ (last.op = "save" /\ C12_AccountCompensated)
           => Called(last.calls, "cognito.registerUser", "ok")
    /\ C12_FailedAfterAccount => C12_AccountCompensated

(***************************************************************************)
(* C13  which repository operations swallow a failing call                 *)
(***************************************************************************)
\* the operations whose body is one try/catch, and the two that have none
C13_Guarded == {"createEntity", "findEntityById", "updateEntity", "deleteEntity"}
C13_Unguarded == {"getAllEntities", "getEntitiesWithPagination"}

\* C13 as stated: no operation of the Generic Data Repository raises to its
\* caller, whatever call to the backing store or to the cache fails.
C13_AsStated == last.op \in RepoOps => last.raised = ""

\* C13, amended: createEntity, findEntityById, updateEntity and deleteEntity
\* never raise, and report null (false for deleteEntity) whenever one of their
\* calls to the backing store or the cache threw; getAllEntities and
\* getEntitiesWithPagination raise exactly when one of their calls threw.
C13_OnlyGuardedOpsSwallow ==
    /\ last.op \in C13_Guarded =>
          /\ last.raised = ""
          /\ ~NoThrow(last.calls) =>
                last.res = IF last.op = "deleteEntity" THEN Bool(FALSE) ELSE Null
    /\ last.op \in C13_Unguarded => (last.raised # "" <=> ~NoThrow(last.calls))

\* createEntity has saved the entity, the cache write threw, and null came back
C13_Witness ==
    /\ last.op = "createEntity"
    /\ Called(last.calls, "repo.save", "ok")
    /\ Called(last.calls, "cache.set", "throw")
    /\ last.res = Null
    /\ last.raised = ""

(***************************************************************************)
(* C14  a cache hit is returned verbatim, without a read of the store      *)
(***************************************************************************)
C14_Readers == {"findEntityById", "getAllEntities", "getEntitiesWithPagination"}
C14_StoreReads == {"repo.findOneBy", "repo.find", "repo.findAndCount"}

\* a reading operation was called with a cacheModel whose key the cache held,
\* and the cache answered
C14_Hit ==
    /\ last.op \in C14_Readers
    /\ last.cm # NoCM
    /\ last.cm.key \in DOMAIN last.pre.cache
    /\ ~Called(last.calls, "cache.get", "throw")

\* C14: findEntityById, getAllEntities and getEntitiesWithPagination called
\* with a cacheModel C while the cache holds a value under C.key return that
\* value deserialized, whatever the store holds by now, and make no read on the
\* backing store.
C14_HitReturnsCachedVerbatim ==
    C14_Hit =>
        /\ last.raised = ""
        /\ last.res = Parse(last.pre.cache[last.cm.key].value)
        /\ \A i \in DOMAIN last.calls : last.calls[i].fn \notin C14_StoreReads
        /\ last.calls = <<[fn |-> "cache.get", arg |-> last.cm.key, out |-> "hit"]>>

\* a stale hit: findEntityById returned the cached entity of a row that the
\* store no longer holds
C14_Witness ==
    /\ C14_Hit
    /\ last.op = "findEntityById"
    /\ last.res.kind = "entity"
    /\ last.res.val.id = last.arg
    /\ last.arg \notin DOMAIN db

(***************************************************************************)
(* C15  findEntityById on a cache miss                                     *)
(***************************************************************************)
\* findEntityById(id, C) found nothing under C.key, and none of its calls failed
C15_Miss ==
    /\ last.op = "findEntityById"
    /\ last.cm # NoCM
    /\ Called(last.calls, "cache.get", "miss")
    /\ NoThrow(last.calls)

\* the cache as it was before the invocation, with C.key set to the text v
C15_Populated(v) ==
    /\ DOMAIN cache = DOMAIN last.pre.cache \cup {last.cm.key}
    /\ cache[last.cm.key] = [value |-> v, ttl |-> last.cm.expiration]
    /\ \A k \in DOMAIN last.pre.cache \ {last.cm.key} : cache[k] = last.pre.cache[k]

\* C15: findEntityById(id, C) on a cache miss (no call failing): if the store
\* holds the entity, the entity is returned and the cache entry C.key is its
\* serialization with expiration C.expiration; if the store does not hold it,
\* the result is null and the cache is as it was.
C15_MissReadsStoreAndPopulates ==
    C15_Miss =>
        /\ last.raised = ""
        /\ db = last.pre.db
        /\ IF last.arg \in DOMAIN last.pre.db
           THEN /\ last.res = Ent(EntityOf(last.arg, last.pre.db[last.arg]))
                /\ C15_Populated(Stringify(last.res))
           ELSE /\ last.res = Null
                /\ cache = last.pre.cache

\* a miss on an entity the store holds
C15_Witness ==
    /\ C15_Miss
    /\ last.arg \in DOMAIN last.pre.db
    /\ last.cm.key \in DOMAIN cache

(***************************************************************************)
(* C16  findUserByUsername and the cache contract of findEntityById        *)
(***************************************************************************)
\* findUserByUsername(username, C) was called with a cacheModel
C16_Case == last.op = "findUserByUsername" /\ last.cm # NoCM

\* C16: findUserByUsername(username, C) has the cache contract of
\* findEntityById: with a value cached under C.key it returns that value and
\* does not read the store; on a miss it reads the store by username and, when
\* the user is found, sets C.key to the serialized user with C.expiration;
\* when the user is not found it returns null.
C16_AsStated ==
    C16_Case =>
        IF last.cm.key \in DOMAIN last.pre.cache
        THEN /\ last.res = Parse(last.pre.cache[last.cm.key].value)
             /\ CallIdx(last.calls, "repo.findOneBy(username)") = {}
        ELSE /\ Called(last.calls, "repo.findOneBy(username)", "found") =>
                  /\ last.res.kind = "entity"
                  /\ last.cm.key \in DOMAIN cache
                  /\ cache[last.cm.key] = [value |-> Stringify(last.res),
                                           ttl |-> last.cm.expiration]
             /\ Called(last.calls, "repo.findOneBy(username)", "none") =>
                  last.res = Null

(***************************************************************************)
(* C17  a successful updateEntity refreshes the cache from the store       *)
(***************************************************************************)
\* updateEntity(id, data, C) returned an entity
C17_Succeeded ==
    /\ last.op = "updateEntity"
    /\ last.cm # NoCM
    /\ last.res.kind = "entity"

\* C17: a successful updateEntity(id, data, C) re-reads the entity from the
\* store without asking the cache, returns the entity as the store holds it
\* after the update, and leaves under C.key the serialization of that entity
\* with expiration C.expiration.
C17_ReturnsAndCachesStoreState ==
    C17_Succeeded =>
        /\ CallIdx(last.calls, "cache.get") = {}
        /\ Called(last.calls, "repo.findOneBy", "found")
        /\ last.arg.id \in DOMAIN db
        /\ last.res = Ent(EntityOf(last.arg.id, db[last.arg.id]))
        /\ last.res.val.username = last.arg.data.username
        /\ last.cm.key \in DOMAIN cache
        /\ cache[last.cm.key] = [value |-> Stringify(last.res),
                                 ttl |-> last.cm.expiration]

\* the update replaced an older text that was cached under C.key
C17_Witness ==
    /\ C17_Succeeded
    /\ last.cm.key \in DOMAIN last.pre.cache
    /\ last.pre.cache[last.cm.key].value # Stringify(last.res)
    /\ last.pre.db[last.arg.id].username # last.arg.data.username

(***************************************************************************)
(* C18  when deleteEntity returns true                                     *)
(***************************************************************************)
\* C18: deleteEntity returns true only if the store reported an affected-row
\* count of at least 1; for a count of 0, for no count reported and for a
\* thrown error it returns false.
C18_AsStated ==
    (last.op = "deleteEntity" /\ last.res = Bool(TRUE))
        => Called(last.calls, "repo.delete", "affected:1")

(***************************************************************************)
(* C19  deleteEntity then findEntityById                                   *)
(***************************************************************************)
\* deleteEntity(id, C) has returned true
C19_Deleted ==
    /\ last.op = "deleteEntity"
    /\ last.cm # NoCM
    /\ last.res = Bool(TRUE)

\* findEntityById(id, C) was invoked right after deleteEntity(id, C) returned true
C19_FindAfterDelete ==
    /\ last.op = "findEntityById"
    /\ last.prev.op = "deleteEntity"
    /\ last.prev.cm # NoCM
    /\ last.prev.res = Bool(TRUE)
    /\ last.cm = last.prev.cm
    /\ last.arg = last.prev.arg

\* C19: after deleteEntity(id, C) has returned true the cache holds no entry
\* under C.key, and a findEntityById(id, C) that follows immediately returns
\* null.
C19_DeleteEvictsThenFindNull ==
    /\ C19_Deleted => last.cm.key \notin DOMAIN cache
    /\ C19_FindAfterDelete =>
          /\ last.cm.key \notin DOMAIN last.pre.cache
          /\ last.res = Null

\* the deleted entity was in the store and a text was cached under C.key
C19_Witness ==
    /\ C19_FindAfterDelete
    /\ last.arg \in DOMAIN last.prev.pre.db
    /\ last.cm.key \in DOMAIN last.prev.pre.cache
    /\ NoThrow(last.calls)

(***************************************************************************)
(* C20  GenericService is a pass-through                                   *)
(***************************************************************************)
\* the invocation that has just returned left the world, and handed back, what
\* the repository invocation r does
C20_Same(r) ==
    /\ last.calls = r.x.calls
    /\ last.res = r.res
    /\ last.raised = r.raised
    /\ db = r.x.db
    /\ cache = r.x.cache

\* the world the invocation started in
C20_Pre == Start(last.pre.db, last.pre.cache)

C21_Key == UserKey(last.arg.username)

\* the identity provider issued a token to the invocation
C21_TokenIssued == Called(last.calls, "cognito.authenticate", "token")

\* the user was resolved from the cache, or else from the repository
C21_Resolved ==
    \/ /\ Called(last.calls, "cache.get", "hit")
       /\ Parse(last.pre.cache[C21_Key].value).kind = "entity"
       /\ Parse(last.pre.cache[C21_Key].value).val.username = last.arg.username
    \/ /\ Called(last.calls, "cache.get", "miss")
       /\ Called(last.calls, "repo.findOneBy(username)", "found")
       /\ \E i \in DOMAIN last.pre.db : last.pre.db[i].username = last.arg.username

\* C21: authenticate(username, password) returns {token} only if the identity
\* provider issued a token (the one returned) and a user entity of that username
\* was resolved from the cache or the repository; with a token issued and no
\* entity in the cache nor in the repository it raises the authentication
\* failure and returns no token.
C21_TokenOnlyWithUser ==
    last.op = "authenticate" =>
        /\ last.res.kind = "token" =>
              /\ C21_TokenIssued
              /\ last.res = Token("token:" \o last.arg.username)
              /\ C21_Resolved
              /\ last.raised = ""
        /\ (/\ C21_TokenIssued
            /\ Called(last.calls, "cache.get", "miss")
            /\ Called(last.calls, "repo.findOneBy(username)", "none")) =>
              /\ last.raised = AuthFailed
              /\ last.res = Void

\* the token was valid and no user could be resolved
C21_Witness ==
    /\ last.op = "authenticate"
    /\ C21_TokenIssued
    /\ Called(last.calls, "cache.get", "miss")
    /\ Called(last.calls, "repo.findOneBy(username)", "none")
    /\ last.raised = AuthFailed

(***************************************************************************)
(* C22  what authenticate reads and writes once the token is issued        *)
(***************************************************************************)
\* authenticate got its token
C22_AfterToken == last.op = "authenticate" /\ C21_TokenIssued

\* the user the repository answered the lookup with
C22_Found(e) ==
    /\ e.id \in DOMAIN last.pre.db
    /\ e = EntityOf(e.id, last.pre.db[e.id])
    /\ e.username = last.arg.username

\* C22: in authenticate, after the identity provider issued a token: on a cache
\* hit for user:<username> the repository is not consulted and the cache is not
\* written; on a miss with the user found in the repository the entry
\* user:<username> is set to the serialized user with TTL 3600 (unless the
\* write itself fails); on a miss with no user found nothing is written.
C22_CacheUseAfterToken ==
    C22_AfterToken =>
        /\ Called(last.calls, "cache.get", "hit") =>
              /\ CallIdx(last.calls, "repo.findOneBy(username)") = {}
              /\ CallIdx(last.calls, "cache.set") = {}
              /\ cache = last.pre.cache
        /\ (/\ Called(last.calls, "cache.get", "miss")
            /\ Called(last.calls, "repo.findOneBy(username)", "found")) =>
              /\ \E i \in CallIdx(last.calls, "cache.set") :
                    last.calls[i].arg = C21_Key
              /\ Called(last.calls, "cache.set", "ok") =>
                    /\ C21_Key \in DOMAIN cache
                    /\ cache[C21_Key].ttl = 3600
                    /\ \E e \in Entities :
                          /\ C22_Found(e)
                          /\ cache[C21_Key].value = Stringify(Ent(e))
        /\ (/\ Called(last.calls, "cache.get", "miss")
            /\ Called(last.calls, "repo.findOneBy(username)", "none")) =>
              /\ CallIdx(last.calls, "cache.set") = {}
              /\ cache = last.pre.cache

\* a miss that found the user and cached it
C22_Witness ==
    /\ C22_AfterToken
    /\ Called(last.calls, "repo.findOneBy(username)", "found")
    /\ Called(last.calls, "cache.set", "ok")
    /\ C21_Key \notin DOMAIN last.pre.cache
    /\ C21_Key \in DOMAIN cache

(***************************************************************************)
(* C23  completePasswordReset validates before any side effect             *)
(***************************************************************************)
\* completePasswordReset was called with a required field left empty
C23_MissingField ==
    /\ last.op = "completePasswordReset"
    /\ \/ last.arg.username = ""
       \/ last.arg.newPassword = ""
       \/ last.arg.confirmationCode = ""

\* C23: when username, newPassword or confirmationCode is empty,
\* completePasswordReset raises and has made no call to the identity provider,
\* the encryption adapter, the repository or the cache.
C23_ValidatesBeforeEffects ==
    C23_MissingField =>
        /\ last.raised # ""
        /\ last.calls = <<>>
        /\ db = last.pre.db
        /\ cache = last.pre.cache

\* only the confirmation code was missing
C23_Witness ==
    /\ C23_MissingField
    /\ last.arg.username # ""
    /\ last.arg.newPassword # ""
    /\ last.raised = ResetFailed

(***************************************************************************)
(* C24  initiatePasswordReset with an empty username                       *)
(***************************************************************************)
\* C24: with an empty username initiatePasswordReset raises, and the
\* identity provider's initiate-reset call is not issued.
C24_AsStated ==
    (last.op = "initiatePasswordReset" /\ last.arg = "") =>
        /\ last.raised # ""
        /\ CallIdx(last.calls, "cognito.initiatePasswordReset") = {}

(***************************************************************************)
(* C25  completePasswordReset when the user cannot be located              *)
(***************************************************************************)
\* the identity provider confirmed the reset and the lookup by username gave
\* no user (none in the store, or the lookup failed)
C25_NotLocated ==
    /\ last.op = "completePasswordReset"
    /\ Called(last.calls, "cognito.completePasswordReset", "ok")
    /\ \/ Called(last.calls, "repo.findOneBy(username)", "none")
       \/ Called(last.calls, "repo.findOneBy(username)", "throw")

\* C25: when the user cannot be located after the identity provider confirmed
\* the reset, completePasswordReset raises 'Failed to complete password reset'
\* and issues no update on the repository.
C25_FailsWithoutUpdate ==
    C25_NotLocated =>
        /\ last.raised = "Failed to complete password reset"
        /\ CallIdx(last.calls, "repo.update") = {}
        /\ db = last.pre.db

\* the store holds other users, but none of that username
C25_Witness ==
    /\ C25_NotLocated
    /\ Called(last.calls, "repo.findOneBy(username)", "none")
    /\ DOMAIN db # {}

(***************************************************************************)
(* C26  what the success result of completePasswordReset stands for        *)
(***************************************************************************)
\* completePasswordReset returned its success result
C26_Succeeded ==
    /\ last.op = "completePasswordReset"
    /\ last.res = Message("Password reset successfully completed.")

\* C26: whenever completePasswordReset returns its success result, the user's
\* row exists in the backing store and its password is the encryption
\* adapter's output for newPassword.
C26_AsStated ==
    C26_Succeeded =>
        \E i \in DOMAIN db :
            /\ db[i].username = last.arg.username
            /\ db[i].password = Encrypt(last.arg.newPassword)

(***************************************************************************)
(* C27  one fixed error message per workflow                               *)
(***************************************************************************)
\* the message each workflow of the domain service raises
C27_Message ==
    [save |-> "Registration failed",
     confirmRegistration |-> "User confirmation failed",
     authenticate |-> "Authentication failed: Invalid username or password",
     initiatePasswordReset |-> "Failed to initiate password reset",
     completePasswordReset |-> "Failed to complete password reset"]

\* a workflow of the domain service has raised an error to its caller
C27_Raised == last.op \in DOMAIN C27_Message /\ last.raised # ""

\* C27: every error a workflow of the domain service (save,
\* confirmRegistration, authenticate, initiatePasswordReset,
\* completePasswordReset) raises to its caller is that workflow's one fixed
\* message, whatever call failed underneath.
C27_GenericMessages == C27_Raised => last.raised = C27_Message[last.op]

\* the identity provider rejected the initiate-reset request
C27_Witness ==
    /\ C27_Raised
    /\ last.op = "initiatePasswordReset"
    /\ Called(last.calls, "cognito.initiatePasswordReset", "throw")

(***************************************************************************)
(* C28  when createEntity writes the cache                                 *)
(***************************************************************************)
C28_Case == last.op = "createEntity" /\ last.cm # NoCM

\* the save succeeded, nothing was under C.key, and the write went through
C28_Wrote ==
    /\ Called(last.calls, "repo.save", "ok")
    /\ Called(last.calls, "cache.get", "miss")
    /\ Called(last.calls, "cache.set", "ok")

\* the cache as it was before the invocation, with C.key set to the text v
C28_Entry(v) ==
    /\ DOMAIN cache = DOMAIN last.pre.cache \cup {last.cm.key}
    /\ cache[last.cm.key] = [value |-> v, ttl |-> last.cm.expiration]
    /\ \A k \in DOMAIN last.pre.cache \ {last.cm.key} : cache[k] = last.pre.cache[k]

\* C28: createEntity(E, C) writes the cache only after a successful save and
\* only if no value is present under C.key; the entry written is the
\* serialization of the input entity E with expiration C.expiration; a value
\* already under C.key is left unchanged; if the save fails the cache is not
\* touched at all.
C28_WritesOnlyAbsentKeyAfterSave ==
    C28_Case =>
        /\ CallIdx(last.calls, "cache.set") # {} =>
               /\ Called(last.calls, "repo.save", "ok")
               /\ Called(last.calls, "cache.get", "miss")
               /\ \A i \in CallIdx(last.calls, "cache.set") :
                      /\ \E j \in CallIdx(last.calls, "repo.save") : j < i
                      /\ \E j \in CallIdx(last.calls, "cache.get") : j < i
        /\ CallIdx(last.calls, "cache.delete") = {}
        /\ IF C28_Wrote THEN C28_Entry(Stringify(Ent(last.arg)))
                        ELSE cache = last.pre.cache
        /\ Called(last.calls, "cache.get", "hit") =>
               /\ CallIdx(last.calls, "cache.set") = {}
               /\ cache = last.pre.cache
        /\ Called(last.calls, "repo.save", "throw") =>
               /\ \A i \in DOMAIN last.calls : last.calls[i].fn = "repo.save"
               /\ cache = last.pre.cache

\* an entity without an id was saved and cached as it was passed in
C28_Witness ==
    /\ C28_Case
    /\ C28_Wrote
    /\ last.arg.id = NoId
    /\ last.res.kind = "entity"
    /\ cache[last.cm.key].value # Stringify(last.res)

(***************************************************************************)
(* C29  updateEntity on an entity the store does not hold                  *)
(***************************************************************************)
\* a re-read of updateEntity was answered by the store: no such row
C29_NotFound ==
    /\ last.op = "updateEntity"
    /\ Called(last.calls, "repo.findOneBy", "none")

\* C29: when a re-read of updateEntity does not find the entity (after a
\* successful update call, or in the rollback after a failed one),
\* updateEntity returns null and issues no delete call to the store.
C29_NotFoundNullNoDelete ==
    C29_NotFound =>
        /\ last.res = Null
        /\ last.raised = ""
        /\ CallIdx(last.calls, "repo.delete") = {}
        /\ db = last.pre.db

\* the update call went through and both re-reads found nothing
C29_Witness ==
    /\ C29_NotFound
    /\ Called(last.calls, "repo.update", "ok")
    /\ Cardinality(CallIdx(last.calls, "repo.findOneBy")) = 2
    /\ NoThrow(last.calls)

(***************************************************************************)
(* C30  the rollback of updateEntity and the update call                   *)
(***************************************************************************)
\* C30 as stated: updateEntity deletes the row as a rollback only if the
\* update call itself threw; when the update call succeeded (a later cache
\* write failing included), updateEntity issues no delete and the row stays.
C30_AsStated ==
    (last.op = "updateEntity" /\ Called(last.calls, "repo.update", "ok")) =>
        /\ CallIdx(last.calls, "repo.delete") = {}
        /\ DOMAIN db = DOMAIN last.pre.db

(***************************************************************************)
(* C31  what a null from createEntity means                                *)
(***************************************************************************)
\* C31 as stated: createEntity(E, C) returns null only if the entity was not
\* persisted: whenever the save call to the store succeeded, createEntity
\* returns the saved entity, also when a cache get or set after it fails.
C31_AsStated ==
    (last.op = "createEntity" /\ Called(last.calls, "repo.save", "ok")) =>
        /\ last.res.kind = "entity"
        /\ last.res.val.id \in DOMAIN db
        /\ RowOf(last.res.val) = db[last.res.val.id]

(***************************************************************************)
(* C32  a removed row and the cache entry of the call's cacheModel         *)
(***************************************************************************)
\* the id a deleteEntity or updateEntity invocation was given
C32_Id == IF last.op = "deleteEntity" THEN last.arg ELSE last.arg.id

\* a call made with a cacheModel has removed the row from the store
C32_RowRemoved ==
    /\ last.op \in {"deleteEntity", "updateEntity"}
    /\ last.cm # NoCM
    /\ C32_Id \in DOMAIN last.pre.db
    /\ C32_Id \notin DOMAIN db

\* C32 as stated: whenever a call made with a cacheModel C removes the
\* entity's row from the store (deleteEntity, or the rollback deletion inside
\* a failed updateEntity), the cache holds no entry under C.key when the
\* call returns.
C32_AsStated == C32_RowRemoved => last.cm.key \notin DOMAIN cache

(***************************************************************************)
(* C33  deleteEntity racing with findEntityById                            *)
(***************************************************************************)
\* caller d ran deleteEntity(id, C), caller f ran findEntityById(id, C), both
\* have returned, and deleteEntity returned true
C33_BothDone(d, f) ==
    /\ tasks[d].op = "deleteEntity" /\ tasks[d].pc = "done"
    /\ tasks[f].op = "findEntityById" /\ tasks[f].pc = "done"
    /\ tasks[d].cm # NoCM /\ tasks[f].cm = tasks[d].cm
    /\ tasks[f].arg.id = tasks[d].arg.id
    /\ tasks[d].res = Bool(TRUE)

\* C33 as stated: under any interleaving of a deleteEntity(id, C) and a
\* concurrent findEntityById(id, C), once both have returned and deleteEntity
\* returned true, the cache holds no entry under C.key for the deleted entity.
C33_AsStated ==
    \A d, f \in Callers :
        C33_BothDone(d, f) =>
            ~ /\ tasks[d].cm.key \in DOMAIN cache
              /\ Parse(cache[tasks[d].cm.key].value).val.id = tasks[d].arg.id

(***************************************************************************)
(* C34  concurrent updateEntity calls on one id                            *)
(***************************************************************************)
\* every caller ran updateEntity on the same id and has returned
C34_AllUpdatesDone(id) ==
    \A c \in Callers :
        /\ tasks[c].op = "updateEntity"
        /\ tasks[c].pc = "done"
        /\ tasks[c].arg.id = id

\* C34 as stated: under any interleaving of concurrent updateEntity calls on
\* the same id, with no deleteEntity call by any caller, if one of the calls
\* returns a non-null entity then the row still exists in the store once all
\* calls have completed.
C34_AsStated ==
    \A id \in SharedIds :
        (C34_AllUpdatesDone(id) /\ \E c \in Callers : tasks[c].res.kind = "entity")
            => id \in DOMAIN db

(***************************************************************************)
(* C35  a failed createUser and the rows that were there before            *)
(***************************************************************************)
C35_SaveFailed ==
    /\ last.op = "createUser"
    /\ Called(last.calls, "repo.save", "throw")

\* C35 as stated: a createUser(u) that fails to save returns null and removes
\* no row that was in the store before the call, a row with the same
\* username included.
C35_AsStated ==
    C35_SaveFailed =>
        /\ last.res = Null
        /\ last.raised = ""
        /\ \A i \in DOMAIN last.pre.db :
              i \in DOMAIN db /\ db[i] = last.pre.db[i]

(***************************************************************************)
(* C36  the confirm-forgot-password request of completePasswordReset       *)
(***************************************************************************)
\* the requests completePasswordReset sent to the identity provider
C36_Requests ==
    {last.calls[i].arg : i \in CallIdx(last.calls, "cognito.completePasswordReset")}

\* C36: for completePasswordReset(username, newPassword, confirmationCode),
\* the confirm-forgot-password request that reaches the identity provider
\* carries Username = username, Password = newPassword and ConfirmationCode =
\* confirmationCode.
C36_RequestCarriesArguments ==
    last.op = "completePasswordReset" =>
        \A r \in C36_Requests :
            /\ r.Username = last.arg.username
            /\ r.Password = last.arg.newPassword
            /\ r.ConfirmationCode = last.arg.confirmationCode

\* a request went out with a password that differs from the code
C36_Witness ==
    /\ last.op = "completePasswordReset"
    /\ Called(last.calls, "cognito.completePasswordReset", "ok")
    /\ last.arg.newPassword # last.arg.confirmationCode

(***************************************************************************)
(* C37  cache calls and the start-up of the cache facade                   *)
(***************************************************************************)
\* the cache calls of the invocation that has just returned
C37_CacheCalls == {i \in DOMAIN last.calls : last.calls[i].fn \in CacheFns}

\* C37 as stated: every cache.get, cache.set or cache.delete invoked by an
\* operation happens after the asynchronous initialisation of the cache
\* facade has completed: no operation meets the facade before its methods are
\* installed, and no more than one client is created, exactly one once the
\* initialisation has completed.
C37_AsStated ==
    /\ last.op # "idle" =>
          \A i \in C37_CacheCalls : last.calls[i].out # "uninstalled"
    /\ facade.clients <= 1
    /\ facade.installed => facade.clients = 1

(***************************************************************************)
(* C38  the plaintext password in the registration workflow                *)
(***************************************************************************)
\* the awaited calls createEntity makes
C38_CreateEntityFns == {"repo.save", "cache.get", "cache.set"}

\* C38: in the registration workflow the plaintext password reaches neither
\* the store nor the cache: every entity passed to createEntity, the row it
\* leaves in the store and every cache entry createEntity writes for it carry
\* as password the output of the encryption adapter, and createEntity is not
\* called at all when the encryption fails.
C38_PlaintextNeverStored ==
    last.op = "save" =>
        /\ \A i \in CallIdx(last.calls, "repo.save") :
              /\ last.calls[i].arg.password = Encrypt(last.arg.password)
              /\ last.calls[i].arg.password # last.arg.password
        /\ \A i \in DOMAIN db :
              i \notin DOMAIN last.pre.db => db[i].password = Encrypt(last.arg.password)
        /\ Called(last.calls, "cache.set", "ok") =>
              /\ last.cm.key \in DOMAIN cache
              /\ Parse(cache[last.cm.key].value).val.password = Encrypt(last.arg.password)
        /\ \A k \in DOMAIN cache :
              Parse(cache[k].value).kind = "entity"
                  => Parse(cache[k].value).val.password \notin Plain
        /\ ~Called(last.calls, "kms.encrypt", "ok") =>
              \A i \in DOMAIN last.calls : last.calls[i].fn \notin C38_CreateEntityFns

\* a registration that stored the user and cached it
C38_Witness ==
    /\ last.op = "save"
    /\ last.res.kind = "entity"
    /\ last.arg.password \in Plain
    /\ Called(last.calls, "cache.set", "ok")
    /\ \E i \in DOMAIN db : i \notin DOMAIN last.pre.db

(***************************************************************************)
(* C39  the answer of the registerUser handler                             *)
(***************************************************************************)
\* the handler ran the registration for a request with all its fields
C39_Handled == last.op = "UserController.registerUser" /\ last.res.statusCode # 400

\* the store holds a row for the request that it did not hold before
C39_Persisted ==
    \E i \in DOMAIN db :
        /\ i \notin DOMAIN last.pre.db
        /\ db[i].username = last.arg.username

\* C39 as stated: the registerUser handler answers with statusCode 200 ('User
\* registered successfully') only if the user entity was persisted in the
\* store; when the persistence step fails it answers with 500.
C39_AsStated ==
    C39_Handled =>
        /\ last.res.statusCode = 200 => C39_Persisted
        /\ Called(last.calls, "repo.save", "throw") => last.res.statusCode = 500

====
